---------------------------- MODULE Spec2Model ----------------------------
(***************************************************************************)
(* A model of the RMBS evaluator (rishikanaujia/rmbs_evaluator).           *)
(*                                                                         *)
(* RMBSEvaluator.evaluate_all_repos walks the repository directories and   *)
(* runs six checkers on each one, either in the calling process (serial    *)
(* mode) or in the worker processes of a ProcessPoolExecutor (parallel     *)
(* mode).  The checkers load and call candidate code inside the process    *)
(* that runs them, so the process-wide module search path (sys.path) is    *)
(* part of the state.                                                      *)
(*                                                                         *)
(* Scores are floats in the program.  Here a score is an integer number of *)
(* 1/Scale points, and overall_score is an integer number of               *)
(* 1/(Scale * WeightScale) points, so that every sum and product the       *)
(* program computes is exact.  Elapsed times are in milliseconds.          *)
(***************************************************************************)
EXTENDS Integers, Sequences, FiniteSets, TLC

(***************************************************************************)
(* Bounds of the model.                                                    *)
(***************************************************************************)
NumRepos == 2       \* repository directories under repos_directory
NumWorkers == 2     \* worker processes of the pool
MaxRuns == 2        \* calls of evaluate_all_repos on one evaluator
MaxAttrs == 2       \* attributes dir(module) lists for a candidate module

(***************************************************************************)
(* Units.                                                                  *)
(***************************************************************************)
Scale == 10000      \* score units per point: 5.0 is 5 * Scale
WeightScale == 10   \* weights are held in tenths: 0.3 is 3

Min(a, b) == IF a <= b THEN a ELSE b
Max(a, b) == IF a >= b THEN a ELSE b

Repos == 1..NumRepos
Workers == 1..NumWorkers

(***************************************************************************)
(* test_cases.py: the fixtures, in the order of the dict, and the          *)
(* evaluation parameters.  A fixture input is identified by the name of    *)
(* its case; Python's None is the string "None".                           *)
(***************************************************************************)
CaseNames ==
    <<"basic_case", "high_risk_case", "low_risk_case", "edge_case_empty", "large_case">>

RMBS_TEST_CASES ==
    [basic_case      |-> [expected_output |-> "BBB"],
     high_risk_case  |-> [expected_output |-> "C"],
     low_risk_case   |-> [expected_output |-> "AAA"],
     edge_case_empty |-> [expected_output |-> "None"],
     large_case      |-> [expected_output |-> "None"]]

ComponentNames ==
    <<"structure", "tests", "code_quality", "algorithm", "performance", "documentation">>

EVALUATION_PARAMS ==
    [weights |-> [structure |-> 1, tests |-> 2, code_quality |-> 2,
                  algorithm |-> 3, performance |-> 1, documentation |-> 1],
     expected_files |->
        <<"credit_rating.py", "test_credit_rating.py", "requirements.txt", "README.md">>]

WeightsSwapped ==
    [structure |-> 1, tests |-> 2, code_quality |-> 3,
     algorithm |-> 2, performance |-> 1, documentation |-> 1]

\* evaluate_repo's own weight table (a dict literal in the method body).
weights ==
    [structure |-> 1, tests |-> 2, code_quality |-> 2,
     algorithm |-> 3, performance |-> 1, documentation |-> 1]

SeqToSet(s) == {s[i] : i \in 1..Len(s)}
ExpectedFileSet == SeqToSet(EVALUATION_PARAMS.expected_files)

(***************************************************************************)
(* What a checker hands back: the way it ended ("none": it returned;       *)
(* "Exception": it raised an Exception; "SystemExit": it raised a          *)
(* BaseException that is no Exception), the score and notes it returned,   *)
(* and the sys.path of the process when it ended.                          *)
(***************************************************************************)
Returned(score, notes, path) ==
    [raised |-> "none", score |-> score, notes |-> notes, sys_path |-> path]

Raised(kind, path) ==
    [raised |-> kind, score |-> 0, notes |-> <<>>, sys_path |-> path]

Note(case, kind, result, using) ==
    [case |-> case, kind |-> kind, result |-> result, using |-> using]

SimpleNote(kind) == <<Note("-", kind, "-", "-")>>

(***************************************************************************)
(* structure_evaluator.py                                                  *)
(***************************************************************************)
\* A bonus that does not depend on the files found.
StructureBonusFlat(found) == Scale \div 2

\* bonus = min(0.5, len(found_files) * 0.1)
StructureBonus(found) == Min(Scale \div 2, found * (Scale \div 10))

evaluate_structure(c, path) ==
    LET found == Cardinality(c.files \cap ExpectedFileSet)
        score == (found * 5 * Scale) \div Len(EVALUATION_PARAMS.expected_files)
    IN  IF ~c.listable
        THEN Raised("Exception", path)                 \* repo_path.iterdir() raises OSError
        ELSE IF c.extra_dir
             THEN Returned(Min(5 * Scale, score + StructureBonus(found)),
                           SimpleNote("Structure bonus"), path)
             ELSE Returned(score, SimpleNote("Found"), path)

(***************************************************************************)
(* test_evaluator.py.  pytest and coverage are libraries: c.tests holds    *)
(* what they report for the candidate's test file (the PASSED, FAILED and  *)
(* ERROR counts of the output and the covered and missing statements) and  *)
(* where, if anywhere, an exception is raised inside the try block:        *)
(* "before_capture" (os.chdir, coverage.Coverage(), cov.start()),          *)
(* "pytest" (pytest.main) or "after_capture" (cov.stop() and what follows).*)
(* env is what the checker finds and leaves of the state of the process:   *)
(* cwd, the working directory, and stdout, the object sys.stdout names.    *)
(***************************************************************************)
RealStdout == "sys.__stdout__"
CaptureOutput == "CaptureOutput"
LaunchDir == <<"launch", 0>>

TestCoverage(c) ==
    LET total_lines == c.tests.covered + c.tests.missing
    IN  IF "credit_rating.py" \in c.files /\ total_lines > 0
        THEN (c.tests.covered * 100 * Scale) \div total_lines
        ELSE 0

\* The except clause and the finally clause: the exception was raised with
\* sys.stdout naming out, and os.chdir(original_dir) is all that is undone.
TestsExcept(path, original_dir, out) ==
    Returned(0, SimpleNote("Error running tests"), path)
    @@ [coverage |-> 0, env |-> [cwd |-> original_dir, stdout |-> out]]

\* The end of the try block when nothing is raised: sys.stdout was set to
\* sys.__stdout__ after pytest.main, and the finally clause restores the
\* working directory.
TestsReturn(c, path, original_dir) ==
    LET total_tests == c.tests.passed + c.tests.failed + c.tests.errors
        coverage_pct == TestCoverage(c)
        test_points == Min((5 * Scale) \div 2,
                           (c.tests.passed * 5 * Scale) \div (2 * total_tests))
        coverage_points == Min((5 * Scale) \div 2, coverage_pct \div 40)
    IN  (IF total_tests = 0
         THEN Returned(0, SimpleNote("No tests were run"), path)
         ELSE Returned(test_points + coverage_points, SimpleNote("Tests"), path))
        @@ [coverage |-> coverage_pct, env |-> [cwd |-> original_dir, stdout |-> RealStdout]]

evaluate_tests(c, path, env) ==
    IF "test_credit_rating.py" \notin c.files
    THEN Returned(0, SimpleNote("No test file found"), path) @@ [coverage |-> 0, env |-> env]
    ELSE IF c.tests.raises = "before_capture"
    THEN TestsExcept(path, env.cwd, env.stdout)
    ELSE IF c.tests.raises = "pytest"
    THEN TestsExcept(path, env.cwd, CaptureOutput)
    ELSE IF c.tests.raises = "after_capture"
    THEN TestsExcept(path, env.cwd, RealStdout)
    ELSE TestsReturn(c, path, env.cwd)

(***************************************************************************)
(* quality_evaluator.py.  c.source holds what the line scan and the        *)
(* pattern search find in the text of credit_rating.py: the counters of    *)
(* the scan, and the constructs of the text the patterns are searched in.  *)
(* documented is the number of function and class definitions that have a  *)
(* docstring; the scan does not compute it.                                *)
(***************************************************************************)
\* The constructs a text can hold that a validation pattern matches.
Constructs ==
    {"if not x", "if x is None", "if not isinstance(", "if len(x)", "raise E", "raise",
     "try:", "except E:", "except:", "assert x"}

\* validation_patterns, in the order of the list: the constructs each regular
\* expression matches.
validation_patterns ==
    <<{"if not x", "if not isinstance("},      \* if\s+not\s+\w+
      {"if x is None"},                        \* if\s+\w+\s+is\s+None
      {"if not isinstance("},                  \* if\s+not\s+isinstance
      {"if len(x)"},                           \* if\s+len\(\w+\)
      {"raise E"},                             \* raise\s+\w+
      {"try:"},                                \* try\s*:
      {"except E:"},                           \* except\s+
      {"assert x"}>>                           \* assert\s+

\* re.search(pattern, content) finds a match.
Matches(k, src) == validation_patterns[k] \cap src.constructs # {}

ValidationScore(src) ==
    Min((5 * Scale) \div 2,
        Cardinality({k \in DOMAIN validation_patterns : Matches(k, src)}) * (Scale \div 2))

DocScore(src) ==
    LET expected_docstrings == src.function_count + src.class_count
        ratio_part == IF expected_docstrings > 0
                      THEN Min((3 * Scale) \div 2,
                               (src.docstring_count * 3 * Scale) \div (2 * expected_docstrings))
                      ELSE 0
        comment_part == IF src.total_lines > 0
                        THEN IF 20 * src.comment_lines >= src.total_lines
                                /\ 5 * src.comment_lines <= src.total_lines
                             THEN Scale
                             ELSE IF src.comment_lines > 0 THEN Scale \div 2 ELSE 0
                        ELSE 0
    IN  ratio_part + comment_part

\* complexity_score: the function-length bucket, the organization bonus and
\* the entry-point bonus.  (avg - 20)/100 points is (avg - 20) * Scale / 100.
ComplexityScore(src) ==
    (IF 5 <= src.avg_function_length /\ src.avg_function_length <= 20
     THEN (5 * Scale) \div 4
     ELSE IF src.avg_function_length < 5
     THEN Scale \div 2
     ELSE Max(0, (5 * Scale) \div 4 - (src.avg_function_length - 20) * (Scale \div 100)))
    + (IF src.class_count > 0 /\ src.function_count >= 3
       THEN (3 * Scale) \div 4
       ELSE IF src.function_count >= 3 THEN Scale \div 2 ELSE 0)
    + (IF src.has_main_function THEN Scale \div 2 ELSE 0)

\* A combination that counts the complexity score too.
QualityScoreWithComplexity(src) == DocScore(src) + ValidationScore(src) + ComplexityScore(src)

\* quality_score = doc_score + metrics['validation_score']
QualityScore(src) == DocScore(src) + ValidationScore(src)

evaluate_code_quality(c, path) ==
    IF "credit_rating.py" \notin c.files
    THEN Returned(0, SimpleNote("No credit_rating.py file found"), path)
    ELSE IF ~c.source.readable
    THEN Returned(0, SimpleNote("Error evaluating code quality"), path)
    ELSE Returned(QualityScore(c.source), SimpleNote("Lines"), path)

(***************************************************************************)
(* documentation_evaluator.py.  c.readme holds what the searches find in   *)
(* README.md: its length, the header lines, the fenced code blocks, the    *)
(* list lines and which of the five groups of key terms occur.             *)
(***************************************************************************)
KeyTerms == {"installation", "usage", "examples", "architecture", "testing"}

FormattingQuality(rd) ==
    (IF rd.sections >= 3 THEN Scale ELSE 0)
    + (IF rd.code_blocks >= 1 THEN Scale \div 2 ELSE 0)
    + (IF rd.list_lines > 2 THEN Scale \div 2 ELSE 0)

LengthScore(rd) ==
    IF rd.length < 200 THEN (rd.length * Scale) \div 400
    ELSE IF rd.length <= 3000 THEN Scale
    ELSE Max(Scale \div 2, Scale - ((rd.length - 3000) * Scale) \div 10000)

ContentScore(rd) == Cardinality(rd.terms) * ((6 * Scale) \div 10)

evaluate_documentation(c, path) ==
    IF "README.md" \notin c.files
    THEN Returned(0, SimpleNote("No README.md file found"), path)
    ELSE IF ~c.readme.readable
    THEN Returned(0, SimpleNote("Error evaluating documentation"), path)
    ELSE Returned(ContentScore(c.readme) + LengthScore(c.readme) + FormattingQuality(c.readme),
                  SimpleNote("Length"), path)

(***************************************************************************)
(* The candidate module.  Entries of sys.path are pairs: <<"repo", r>> is  *)
(* str(repo_path) of repository r, <<"lib", r>> is a directory candidate r *)
(* registers itself, <<"site", 0>> is the interpreter's own entry.         *)
(*                                                                         *)
(* c.module describes credit_rating.py as the interpreter sees it: what    *)
(* its top-level code does when it is executed (effect: a change to        *)
(* sys.path; needs_helper: "import helper"; load_raise: what it raises),   *)
(* the attributes dir(module) lists, in the order dir() lists them, with   *)
(* what each does when called on the input of each case (out) and whether  *)
(* it changes the input object it is handed (mutates), the names in the    *)
(* order the file defines them (declared), the wall clock time of a call   *)
(* on the large case (elapsed) and the one-time initialization the first   *)
(* call of the loaded module adds to it (first_call_cost).                 *)
(***************************************************************************)
Dir(r) == <<"repo", r>>
Lib(r) == <<"lib", r>>
SitePath == <<"site", 0>>

Ret(v) == [kind |-> "return", value |-> v]
Raise(e) == [kind |-> "raise", value |-> e]

\* "import helper" finds helper.py in the first directory of sys.path that has one.
HelperResolvable(path, disk) ==
    \E i \in 1..Len(path) : path[i][1] = "repo" /\ disk[path[i][2]].has_helper

PathEffect(r, effect, path) ==
    IF effect = "insert" THEN <<Lib(r)>> \o path
    ELSE IF effect = "append" THEN path \o <<Lib(r)>>
    ELSE path

ExecModuleWithoutFile(r, c, path, disk) ==
    [raised |-> c.module.load_raise, sys_path |-> PathEffect(r, c.module.effect, path)]

\* spec.loader.exec_module(module): runs the top-level code of credit_rating.py.
\* (spec_from_file_location gives a spec with a loader for every location that
\* ends in ".py", so the "Could not load credit_rating.py" return is not taken.)
ExecModule(r, c, path, disk) ==
    IF "credit_rating.py" \notin c.files
    THEN [raised |-> "Exception", sys_path |-> path]          \* FileNotFoundError
    ELSE LET p2 == PathEffect(r, c.module.effect, path)
         IN  IF c.module.needs_helper /\ ~HelperResolvable(p2, disk)
             THEN [raised |-> "Exception", sys_path |-> p2]   \* ImportError
             ELSE [raised |-> c.module.load_raise, sys_path |-> p2]

\* The "Clean up path" blocks.
CleanUpPath(r, path) ==
    IF path # <<>> /\ Head(path) = Dir(r) THEN Tail(path) ELSE path

HasAttrNever(m, name) == FALSE

HasAttr(m, name) == \E i \in 1..Len(m.attrs) : m.attrs[i].name = name
GetAttr(m, name) == m.attrs[CHOOSE i \in 1..Len(m.attrs) : m.attrs[i].name = name]

\* attr(input_data), for the input of the case in the state it is in: calling
\* something that is not callable raises TypeError.
CallOn(attr, case, state) ==
    IF ~attr.callable THEN Raise("Exception")
    ELSE IF state = "modified" THEN attr.out_modified[case]
    ELSE attr.out[case]

\* The call on the input as test_cases.py defines it.
Call(attr, case) == CallOn(attr, case, "intact")

\* What the checkers do with candidate code, in the order they do it: a call
\* of an attribute of the module on the input of a case, which takes ms
\* milliseconds, and the two readings of time.time().
CallEvent(name, case, ms) == [ev |-> "call", name |-> name, case |-> case, ms |-> ms]
TimerStart == [ev |-> "time", name |-> "start_time", case |-> "-", ms |-> 0]
TimerStop == [ev |-> "time", name |-> "end_time", case |-> "-", ms |-> 0]

\* self.test_cases: the state of the input of each case.  The checkers hand
\* the inputs to candidate code as they are, without a copy.
IntactFixtures == [k \in SeqToSet(CaseNames) |-> "intact"]

\* The fixture inputs after candidate code was called on them.
AfterCalls(tc, calls, m) ==
    [k \in DOMAIN tc |->
        IF \E i \in 1..Len(calls) :
              /\ calls[i].ev = "call" /\ calls[i].case = k
              /\ GetAttr(m, calls[i].name).callable
              /\ GetAttr(m, calls[i].name).mutates
        THEN "modified"
        ELSE tc[k]]

(***************************************************************************)
(* algorithm_evaluator.py                                                  *)
(***************************************************************************)
SkippedNever(case) == FALSE

SkippedForCorrectness(case) == case = "large_case"

VerdictByEquality(case, result, expected) ==
    IF result = expected THEN "Correct" ELSE "Incorrect"

VerdictByReturn(case, result, expected) ==
    IF case = "edge_case_empty" THEN "Handled" ELSE "Correct"

Verdict(case, result, expected) ==
    IF case = "edge_case_empty" THEN "Handled"
    ELSE IF result = expected THEN "Correct"
    ELSE "Incorrect"

Passed(kind) == kind \in {"Handled", "Correct"}

\* The loop over dir(module), from its j-th name on.
RECURSIVE TryAttrs(_, _, _, _, _)
TryAttrs(m, case, j, calls, tc) ==
    IF j > Len(m.attrs)
    THEN [end |-> "ok", note |-> Note(case, "NoFunction", "-", "-"), calls |-> calls]
    ELSE LET attr == m.attrs[j]
             called == Append(calls, CallEvent(attr.name, case, 0))
         IN  IF attr.callable /\ ~attr.private
             THEN LET o == CallOn(attr, case, AfterCalls(tc, calls, m)[case])
                  IN  IF o.kind = "return"
                      THEN [end |-> "ok",
                            note |-> Note(case,
                                          Verdict(case, o.value,
                                                  RMBS_TEST_CASES[case].expected_output),
                                          o.value, attr.name),
                            calls |-> called]
                      ELSE IF o.value = "Exception"
                      THEN TryAttrs(m, case, j + 1, called, tc)
                      ELSE [end |-> o.value, note |-> Note(case, "-", "-", attr.name),
                            calls |-> called]
             ELSE TryAttrs(m, case, j + 1, calls, tc)

\* The branch for a module that has calculate_credit_rating: o is what the
\* call did, called the call.
CanonicalResult(case, o, called) ==
    IF o.kind = "return"
    THEN [end |-> "ok",
          note |-> Note(case, Verdict(case, o.value, RMBS_TEST_CASES[case].expected_output),
                        o.value, "calculate_credit_rating"),
          calls |-> called]
    ELSE IF o.value = "Exception"
    THEN [end |-> "ok", note |-> Note(case, "Error", "-", "calculate_credit_rating"),
          calls |-> called]
    ELSE [end |-> o.value, note |-> Note(case, "-", "-", "calculate_credit_rating"),
          calls |-> called]

\* The body of the loop over the cases, for one case.
FixtureResult(m, case, tc) ==
    IF HasAttr(m, "calculate_credit_rating")
    THEN CanonicalResult(case,
                         CallOn(GetAttr(m, "calculate_credit_rating"), case, tc[case]),
                         <<CallEvent("calculate_credit_rating", case, 0)>>)
    ELSE TryAttrs(m, case, 1, <<>>, tc)

RECURSIVE AlgorithmLoop(_, _, _, _, _, _, _)

\* The end of one turn of the loop over the cases: res is what the body did.
LoopStep(m, i, correct, total, notes, calls, tc, res) ==
    IF res.end # "ok"
    THEN [end |-> res.end, correct |-> correct, total |-> total + 1, notes |-> notes,
          calls |-> calls \o res.calls]
    ELSE AlgorithmLoop(m, i + 1, correct + (IF Passed(res.note.kind) THEN 1 ELSE 0),
                       total + 1, Append(notes, res.note), calls \o res.calls, tc)

AlgorithmLoop(m, i, correct, total, notes, calls, tc) ==
    IF i > Len(CaseNames)
    THEN [end |-> "ok", correct |-> correct, total |-> total, notes |-> notes,
          calls |-> calls]
    ELSE IF SkippedForCorrectness(CaseNames[i])
    THEN AlgorithmLoop(m, i + 1, correct, total, notes, calls, tc)
    ELSE LoopStep(m, i, correct, total, notes, calls, tc, FixtureResult(m, CaseNames[i], tc))

\* After the loop: the clean-up of the path, the score and the notes.
AlgorithmReturn(r, path, run) ==
    IF run.end # "ok"
    THEN [calls |-> run.calls] @@ Raised(run.end, path)
    ELSE [calls |-> run.calls]
         @@ Returned(IF run.total > 0 THEN (run.correct * 5 * Scale) \div run.total ELSE 0,
                     run.notes, CleanUpPath(r, path))

\* After exec_module: load is how it ended.
AlgorithmAfterLoad(r, c, load, tc) ==
    IF load.raised = "Exception"
    THEN [calls |-> <<>>]
         @@ Returned(0, SimpleNote("Error checking algorithm"), CleanUpPath(r, load.sys_path))
    ELSE IF load.raised # "none"
    THEN [calls |-> <<>>] @@ Raised(load.raised, load.sys_path)
    ELSE AlgorithmReturn(r, load.sys_path, AlgorithmLoop(c.module, 1, 0, 0, <<>>, <<>>, tc))

evaluate_algorithm(r, c, path, disk, tc) ==
    AlgorithmAfterLoad(r, c, ExecModule(r, c, <<Dir(r)>> \o path, disk), tc)

(***************************************************************************)
(* performance_evaluator.py                                                *)
(***************************************************************************)
PerformanceScoreNoFloor(ms) ==
    IF ms < 100 THEN 5 * Scale
    ELSE IF ms < 500 THEN 4 * Scale
    ELSE IF ms < 2000 THEN 3 * Scale
    ELSE 3 * Scale - ((ms - 2000) * Scale) \div 2000

PerformanceScore(ms) ==
    IF ms < 100 THEN 5 * Scale
    ELSE IF ms < 500 THEN 4 * Scale
    ELSE IF ms < 2000 THEN 3 * Scale
    ELSE Max(Scale, 3 * Scale - ((ms - 2000) * Scale) \div 2000)

\* The input of large_case as the timed run finds it, after the warm-up run.
AfterWarmUp(attr, state) == IF attr.callable /\ attr.mutates THEN "modified" ELSE state

TimedRunTimerFirst(m, attr, state) ==
    LET warm_up == CallEvent(attr.name, "large_case", m.elapsed + m.first_call_cost)
        timed == CallEvent(attr.name, "large_case", m.elapsed)
    IN  IF CallOn(attr, "large_case", state).kind = "raise"
        THEN [end |-> CallOn(attr, "large_case", state).value,
              calls |-> <<TimerStart, warm_up>>]
        ELSE IF CallOn(attr, "large_case", AfterWarmUp(attr, state)).kind = "raise"
        THEN [end |-> CallOn(attr, "large_case", AfterWarmUp(attr, state)).value,
              calls |-> <<TimerStart, warm_up, timed>>]
        ELSE [end |-> "ok", calls |-> <<TimerStart, warm_up, timed, TimerStop>>]

\* The warm-up run and the timed run of one callable: the first call of the
\* module just loaded pays its one-time initialization.
TimedRun(m, attr, state) ==
    LET warm_up == CallEvent(attr.name, "large_case", m.elapsed + m.first_call_cost)
        timed == CallEvent(attr.name, "large_case", m.elapsed)
    IN  IF CallOn(attr, "large_case", state).kind = "raise"
        THEN [end |-> CallOn(attr, "large_case", state).value, calls |-> <<warm_up>>]
        ELSE IF CallOn(attr, "large_case", AfterWarmUp(attr, state)).kind = "raise"
        THEN [end |-> CallOn(attr, "large_case", AfterWarmUp(attr, state)).value,
              calls |-> <<warm_up, TimerStart, timed>>]
        ELSE [end |-> "ok", calls |-> <<warm_up, TimerStart, timed, TimerStop>>]

RECURSIVE TimeAttrs(_, _, _, _)

\* The end of one turn of the loop over dir(module): run is what the warm-up
\* run and the timed run did.
TimeStep(m, j, calls, tc, run) ==
    IF run.end = "Exception"
    THEN TimeAttrs(m, j + 1, calls \o run.calls, tc)
    ELSE [end |-> run.end, calls |-> calls \o run.calls]

\* The loop over dir(module), from its j-th name on.
TimeAttrs(m, j, calls, tc) ==
    IF j > Len(m.attrs)
    THEN [end |-> "ok", calls |-> calls]
    ELSE IF m.attrs[j].callable /\ ~m.attrs[j].private
         THEN TimeStep(m, j, calls, tc,
                       TimedRun(m, m.attrs[j], AfterCalls(tc, calls, m)["large_case"]))
         ELSE TimeAttrs(m, j + 1, calls, tc)

RECURSIVE SumMs(_, _, _)
SumMs(calls, from, to) ==
    IF from > to THEN 0 ELSE calls[from].ms + SumMs(calls, from + 1, to)

\* execution_time is set when both readings of the clock were made.
HasExecutionTime(calls) == \E i \in 1..Len(calls) : calls[i] = TimerStop

\* execution_time = time.time() - start_time: the time that went by between
\* the two readings of the clock.
ExecutionTime(calls) ==
    LET start == CHOOSE i \in 1..Len(calls) : calls[i] = TimerStart
        stop == CHOOSE i \in 1..Len(calls) : calls[i] = TimerStop
    IN  SumMs(calls, start + 1, stop - 1)

\* After the calls: the clean-up of the path, the score and the notes.
PerformanceReturn(r, path, run) ==
    [calls |-> run.calls]
    @@ IF run.end = "Exception"
       THEN Returned(0, SimpleNote("Error testing performance"), CleanUpPath(r, path))
       ELSE IF run.end # "ok"
       THEN Raised(run.end, path)
       ELSE IF HasExecutionTime(run.calls)
       THEN Returned(PerformanceScore(ExecutionTime(run.calls)),
                     SimpleNote("Execution time"), CleanUpPath(r, path))
       ELSE Returned(0, SimpleNote("Could not measure performance"), CleanUpPath(r, path))

\* After exec_module: load is how it ended.
PerformanceAfterLoad(r, m, load, tc) ==
    IF load.raised = "Exception"
    THEN [calls |-> <<>>]
         @@ Returned(0, SimpleNote("Error testing performance"),
                     CleanUpPath(r, load.sys_path))
    ELSE IF load.raised # "none"
    THEN [calls |-> <<>>] @@ Raised(load.raised, load.sys_path)
    ELSE PerformanceReturn(r, load.sys_path,
                           IF HasAttr(m, "calculate_credit_rating")
                           THEN TimedRun(m, GetAttr(m, "calculate_credit_rating"),
                                         tc["large_case"])
                           ELSE TimeAttrs(m, 1, <<>>, tc))

evaluate_performance(r, c, path, disk, tc) ==
    PerformanceAfterLoad(r, c.module, ExecModule(r, c, <<Dir(r)>> \o path, disk), tc)

(***************************************************************************)
(* evaluator.py: the records.  A record is a Python dict; keys is the set  *)
(* of keys the dict has (the other fields hold 0, "" or <<>>).             *)
(***************************************************************************)
ScoreKeys ==
    [structure |-> "structure_score", tests |-> "test_score",
     code_quality |-> "code_quality_score", algorithm |-> "algorithm_score",
     performance |-> "performance_score", documentation |-> "documentation_score"]

ResultKeys ==
    {"repo_name", "overall_score", "structure_score", "structure_notes", "test_score",
     "test_coverage", "test_notes", "code_quality_score", "code_quality_notes",
     "algorithm_score", "algorithm_notes", "performance_score", "performance_notes",
     "documentation_score", "documentation_notes"}

ErrorKeys == {"repo_name", "error", "overall_score"}

EmptyRecord(r) ==
    [keys |-> {}, repo_name |-> r, error |-> "", overall_score |-> 0,
     structure_score |-> 0, structure_notes |-> <<>>,
     test_score |-> 0, test_coverage |-> 0, test_notes |-> <<>>,
     code_quality_score |-> 0, code_quality_notes |-> <<>>,
     algorithm_score |-> 0, algorithm_notes |-> <<>>,
     performance_score |-> 0, performance_notes |-> <<>>,
     documentation_score |-> 0, documentation_notes |-> <<>>]

\* The dict the except clauses build.
ErrorRecord(r, exc) ==
    [EmptyRecord(r) EXCEPT !.keys = ErrorKeys, !.error = exc, !.overall_score = 0]

\* scores: the dict evaluate_repo builds from the six checkers' scores.
Scores(rec) ==
    [structure |-> rec.structure_score, tests |-> rec.test_score,
     code_quality |-> rec.code_quality_score, algorithm |-> rec.algorithm_score,
     performance |-> rec.performance_score, documentation |-> rec.documentation_score]

RECURSIVE SumOver(_, _, _, _)
SumOver(names, i, scores, w) ==
    IF i > Len(names) THEN 0
    ELSE scores[names[i]] * w[names[i]] + SumOver(names, i + 1, scores, w)

\* sum(scores[k] * weights[k] for k in weights)
OverallScore(rec) == SumOver(ComponentNames, 1, Scores(rec), weights)

(***************************************************************************)
(* utils/scoring_utils.py.  scores and weights are dicts: functions on the *)
(* components they have a key for.  A result is a fraction <<n, d>> of     *)
(* 1/(Scale * WeightScale) points.                                         *)
(***************************************************************************)
Abs(x) == IF x >= 0 THEN x ELSE 0 - x

\* The loop over weights.items(): total_score and total_weight.
RECURSIVE TotalScore(_, _, _, _)
TotalScore(names, i, scores, w) ==
    IF i > Len(names) THEN 0
    ELSE (IF names[i] \in DOMAIN w /\ names[i] \in DOMAIN scores
          THEN scores[names[i]] * w[names[i]] ELSE 0)
         + TotalScore(names, i + 1, scores, w)

RECURSIVE TotalWeight(_, _, _, _)
TotalWeight(names, i, scores, w) ==
    IF i > Len(names) THEN 0
    ELSE (IF names[i] \in DOMAIN w /\ names[i] \in DOMAIN scores THEN w[names[i]] ELSE 0)
         + TotalWeight(names, i + 1, scores, w)

\* A return that never divides.
NormalizedNever(total_score, total_weight) == <<total_score, 1>>

\* if total_weight > 0 and abs(total_weight - 1.0) > 1e-6: total_score /= total_weight
Normalized(total_score, total_weight) ==
    IF total_weight > 0 /\ Abs(total_weight - WeightScale) * 1000000 > WeightScale
    THEN <<total_score * WeightScale, total_weight>>
    ELSE <<total_score, 1>>

calculate_weighted_score(scores, w) ==
    Normalized(TotalScore(ComponentNames, 1, scores, w),
               TotalWeight(ComponentNames, 1, scores, w))

(***************************************************************************)
(* evaluate_repo, one checker at a time.  st is the state of the call:     *)
(* raised (how a checker ended), sys_path (of the process), rec (the       *)
(* scores and notes gathered so far), calls (what the checkers did with    *)
(* candidate code so far) and test_cases (the state of the fixture inputs  *)
(* of self.test_cases, which the checkers hand to candidate code as they   *)
(* are, without a copy).                                                   *)
(***************************************************************************)
Stages ==
    <<"structure", "tests", "code_quality", "algorithm", "performance", "documentation",
      "result">>

ApplyChecker(stage, r, c, path, disk, tc, env) ==
    CASE stage = "structure"     -> evaluate_structure(c, path)
      [] stage = "tests"         -> evaluate_tests(c, path, env)
      [] stage = "code_quality"  -> evaluate_code_quality(c, path)
      [] stage = "algorithm"     -> evaluate_algorithm(r, c, path, disk, tc)
      [] stage = "performance"   -> evaluate_performance(r, c, path, disk, tc)
      [] stage = "documentation" -> evaluate_documentation(c, path)

StoreResult(stage, rec, out) ==
    CASE stage = "structure" ->
            [rec EXCEPT !.structure_score = out.score, !.structure_notes = out.notes]
      [] stage = "tests" ->
            [rec EXCEPT !.test_score = out.score, !.test_notes = out.notes,
                        !.test_coverage = out.coverage]
      [] stage = "code_quality" ->
            [rec EXCEPT !.code_quality_score = out.score, !.code_quality_notes = out.notes]
      [] stage = "algorithm" ->
            [rec EXCEPT !.algorithm_score = out.score, !.algorithm_notes = out.notes]
      [] stage = "performance" ->
            [rec EXCEPT !.performance_score = out.score, !.performance_notes = out.notes]
      [] stage = "documentation" ->
            [rec EXCEPT !.documentation_score = out.score, !.documentation_notes = out.notes]

\* The calls of candidate code a checker made.
Made(stage, out) == IF stage \in {"algorithm", "performance"} THEN out.calls ELSE <<>>

\* The working directory and sys.stdout after a checker.
Left(stage, env, out) == IF stage = "tests" THEN out.env ELSE env

\* The state of the call after a checker: out is what the checker handed back.
AfterChecker(stage, c, st, out) ==
    IF out.raised # "none"
    THEN [st EXCEPT !.raised = out.raised,
                    !.sys_path = out.sys_path,
                    !.calls = st.calls \o Made(stage, out),
                    !.test_cases = AfterCalls(st.test_cases, Made(stage, out), c.module),
                    !.env = Left(stage, st.env, out)]
    ELSE [st EXCEPT !.rec = StoreResult(stage, st.rec, out),
                    !.sys_path = out.sys_path,
                    !.calls = st.calls \o Made(stage, out),
                    !.test_cases = AfterCalls(st.test_cases, Made(stage, out), c.module),
                    !.env = Left(stage, st.env, out)]

RunStage(stage, r, c, st, disk) ==
    IF stage = "result"
    THEN [st EXCEPT !.rec = [st.rec EXCEPT !.keys = ResultKeys,
                                           !.overall_score = OverallScore(st.rec)]]
    ELSE AfterChecker(stage, c, st,
                      ApplyChecker(stage, r, c, st.sys_path, disk, st.test_cases, st.env))

RECURSIVE RunStages(_, _, _, _, _)
RunStages(i, r, c, st, disk) ==
    IF i > Len(Stages) \/ st.raised # "none" THEN st
    ELSE RunStages(i + 1, r, c, RunStage(Stages[i], r, c, st, disk), disk)

evaluate_repo(r, c, path, disk) ==
    RunStages(1, r, c,
              [raised |-> "none", sys_path |-> path, rec |-> EmptyRecord(r),
               calls |-> <<>>, test_cases |-> IntactFixtures,
               env |-> [cwd |-> LaunchDir, stdout |-> RealStdout]],
              disk)

\* _evaluate_repo_wrapper: the task a worker process runs, on the copy of the
\* evaluator (and of its test_cases) that was pickled with the task; st is how
\* its call of evaluate_repo ended.
WrapperReturn(r, st) ==
    IF st.raised = "Exception"
    THEN [st EXCEPT !.raised = "none", !.rec = ErrorRecord(r, st.raised)]
    ELSE st

evaluate_repo_wrapper(r, c, path, disk) == WrapperReturn(r, evaluate_repo(r, c, path, disk))

(***************************************************************************)
(* Repositories.  A repository is what the checkers find on disk.          *)
(***************************************************************************)
CaseNameSet == SeqToSet(CaseNames)

\* The names dir(module) may list, in the order dir() lists them (sorted).
DirNames == <<"_rate", "calculate_credit_rating", "rate", "score">>
NameIndex(name) == CHOOSE i \in 1..Len(DirNames) : DirNames[i] = name
IsPrivate(name) == name = "_rate"                   \* attr_name.startswith('_')

Exact == [k \in CaseNameSet |-> Ret(RMBS_TEST_CASES[k].expected_output)]
Const(v) == [k \in CaseNameSet |-> Ret(v)]
RaisesOn(f, S, e) == [k \in CaseNameSet |-> IF k \in S THEN Raise(e) ELSE f[k]]

Behaviours ==
    {Exact, Const("AAA"), Const("None"),
     [Exact EXCEPT !["basic_case"] = Ret("C")],
     RaisesOn(Exact, {"edge_case_empty"}, "Exception"),
     RaisesOn(Const("AAA"), {"large_case"}, "Exception"),
     RaisesOn(Exact, CaseNameSet, "Exception"),
     RaisesOn(Exact, {"high_risk_case"}, "SystemExit"),
     RaisesOn(Exact, {"large_case"}, "SystemExit")}

Attr(name, callable, out) ==
    [name |-> name, private |-> IsPrivate(name), callable |-> callable, out |-> out,
     mutates |-> FALSE, out_modified |-> out]

\* A callable that changes the input it is handed and does on the changed
\* input what it does on the first (it sorts the list of mortgages, or adds a
\* key to each mortgage).
Mutating(attr) == [attr EXCEPT !.mutates = TRUE]

\* A callable that uses up the input it is handed (it pops the mortgages off
\* the list one by one): after is what it does when it is handed that input
\* again.
Consuming(attr, after) == [attr EXCEPT !.mutates = TRUE, !.out_modified = after]

Attrs ==
    {Attr(DirNames[i], TRUE, b) : i \in 1..Len(DirNames), b \in Behaviours}
    \cup {Attr(DirNames[i], FALSE, Exact) : i \in 1..Len(DirNames)}
    \cup {Mutating(Attr(DirNames[i], TRUE, b)) :
            i \in 1..Len(DirNames), b \in {Exact, RaisesOn(Exact, CaseNameSet, "Exception")}}
    \cup {Consuming(Attr("calculate_credit_rating", TRUE, Exact), b) :
            b \in {Const("None"), RaisesOn(Exact, CaseNameSet, "Exception")}}

IsSorted(s) == \A i \in 1..(Len(s) - 1) : NameIndex(s[i].name) < NameIndex(s[i + 1].name)
AttrLists == UNION {{s \in [1..k -> Attrs] : IsSorted(s)} : k \in 0..MaxAttrs}

\* The names of the attributes, as dir() lists them and the other way round.
AttrNames(a) == [i \in 1..Len(a) |-> a[i].name]
Reversed(s) == [i \in 1..Len(s) |-> s[Len(s) + 1 - i]]

GoodModule ==
    [effect |-> "none", needs_helper |-> FALSE, load_raise |-> "none",
     attrs |-> <<Attr("calculate_credit_rating", TRUE, Exact)>>,
     declared |-> <<"calculate_credit_rating">>, elapsed |-> 50, first_call_cost |-> 0]

\* The elapsed times of the model, in milliseconds: each side of every
\* threshold of the score, and of the time where the floor is reached.
ElapsedTimes == {0, 99, 100, 499, 500, 1999, 2000, 3000, 5999, 6000, 9000}

Modules ==
    UNION {{[GoodModule EXCEPT !.attrs = a, !.declared = d] :
                d \in {AttrNames(a), Reversed(AttrNames(a))}} : a \in AttrLists}
    \cup {[GoodModule EXCEPT !.effect = e, !.needs_helper = h, !.load_raise = x] :
            e \in {"none", "insert", "append"}, h \in BOOLEAN,
            x \in {"none", "Exception", "SystemExit"}}
    \cup {[GoodModule EXCEPT !.effect = e, !.attrs = <<Attr("calculate_credit_rating", TRUE, b)>>] :
            e \in {"insert", "append"}, b \in Behaviours}
    \cup {[GoodModule EXCEPT !.elapsed = t, !.first_call_cost = w] :
            t \in ElapsedTimes, w \in {0, 400}}

GoodTests ==
    [raises |-> "none", passed |-> 2, failed |-> 0, errors |-> 0, covered |-> 4, missing |-> 0]

\* Reports whose ratios have exact scores.
TestReports ==
    {t \in [raises : {"none", "pytest"}, passed : 0..2, failed : 0..2, errors : 0..1,
            covered : {0, 1, 4}, missing : {0, 1, 4}] :
        /\ t.passed + t.failed + t.errors \in {0, 1, 2, 4, 5}
        /\ t.covered + t.missing \in {0, 1, 2, 4, 5, 8}}
    \cup {[GoodTests EXCEPT !.raises = x] : x \in {"before_capture", "after_capture"}}

GoodSource ==
    [readable |-> TRUE, function_count |-> 2, class_count |-> 0, documented |-> 2,
     docstring_count |-> 2, comment_lines |-> 2, total_lines |-> 20,
     avg_function_length |-> 8, has_main_function |-> TRUE,
     constructs |-> {"if not x", "if x is None", "raise E", "try:", "except E:"}]

\* Texts with none of the constructs, with one, and with some of several kinds.
ConstructSets ==
    {{}, {"try:"}, {"try:", "except E:"}, {"if not isinstance("}, {"raise"},
     {"if not x", "if x is None", "if len(x)", "assert x"},
     GoodSource.constructs, Constructs}

\* Metrics a text can have: every docstring line is a comment line, every
\* documented definition has a docstring, and the definitions, the comments
\* and the constructs need lines of their own.
Sources ==
    {src \in [readable : BOOLEAN, function_count : 0..2, class_count : 0..1,
              documented : 0..2, docstring_count : 0..3,
              comment_lines : {0, 1, 3, 4, 5}, total_lines : {20},
              avg_function_length : {8}, has_main_function : {TRUE},
              constructs : {{}, GoodSource.constructs}] :
        /\ src.docstring_count <= src.comment_lines
        /\ src.documented <= src.docstring_count
        /\ src.documented <= src.function_count + src.class_count}
    \cup {[GoodSource EXCEPT !.constructs = s] : s \in ConstructSets}
    \cup {[GoodSource EXCEPT !.function_count = f, !.class_count = k,
                             !.avg_function_length = a, !.has_main_function = h] :
            f \in {0, 2, 3}, k \in {0, 1}, a \in {0, 3, 5, 20, 21, 60, 200}, h \in BOOLEAN}

GoodReadme ==
    [readable |-> TRUE, length |-> 1000, sections |-> 2, code_blocks |-> 0, list_lines |-> 0,
     terms |-> {"installation", "usage", "testing"}]

\* The fewest characters a README with these findings has.
MinLength(rd) ==
    5 * Cardinality(rd.terms) + 4 * rd.sections + 6 * rd.code_blocks + 4 * rd.list_lines

\* Findings a text can have: a fenced code block holds "```", which the
\* search for examples finds.
Readmes ==
    {rd \in [readable : BOOLEAN, length : {0, 40, 100, 199, 200, 3000, 3001, 8000, 13000},
             sections : {0, 3}, code_blocks : {0, 1}, list_lines : {0, 3},
             terms : SUBSET KeyTerms] :
        /\ rd.length >= MinLength(rd)
        /\ rd.code_blocks >= 1 => "examples" \in rd.terms}

Compliant ==
    [listable |-> TRUE, files |-> ExpectedFileSet, extra_dir |-> FALSE, has_helper |-> FALSE,
     tests |-> GoodTests, source |-> GoodSource, module |-> GoodModule, readme |-> GoodReadme]

\* A README with every finding the documentation checker looks for.
BestReadme ==
    [readable |-> TRUE, length |-> 1000, sections |-> 3, code_blocks |-> 1, list_lines |-> 3,
     terms |-> KeyTerms]

\* Repositories without credit_rating.py: the module field is what the file
\* would be, and no checker sees it.
Sourceless ==
    {[Compliant EXCEPT !.files = ExpectedFileSet \ {"credit_rating.py"},
                       !.extra_dir = x, !.readme = rd, !.tests = t] :
        x \in BOOLEAN, rd \in {GoodReadme, BestReadme},
        t \in {GoodTests, [GoodTests EXCEPT !.passed = 0, !.errors = 1]}}

\* A repository with the four files and a correct, slow credit_rating.py,
\* and nothing else to its credit.
BarelyCompliant ==
    [Compliant EXCEPT !.tests.raises = "pytest", !.source.readable = FALSE,
                      !.readme.readable = FALSE, !.module.elapsed = 9000]

\* The repositories of a batch.
Menu ==
    {Compliant,
     [Compliant EXCEPT !.has_helper = TRUE, !.module.effect = "insert"],
     [Compliant EXCEPT !.module.needs_helper = TRUE],
     [Compliant EXCEPT !.listable = FALSE],
     [Compliant EXCEPT !.module.load_raise = "SystemExit"],
     [Compliant EXCEPT !.files = ExpectedFileSet \ {"credit_rating.py"}],
     [Compliant EXCEPT
        !.module.attrs = <<Mutating(Attr("calculate_credit_rating", TRUE, Exact))>>]}

\* The repositories a single evaluation is run on: a compliant repository
\* changed in one respect.
Candidates ==
    {[Compliant EXCEPT !.files = f, !.extra_dir = x, !.listable = l] :
        f \in SUBSET ExpectedFileSet, x \in BOOLEAN, l \in BOOLEAN}
    \cup {[Compliant EXCEPT !.tests = t] : t \in TestReports}
    \cup {[Compliant EXCEPT !.source = src] : src \in Sources}
    \cup {[Compliant EXCEPT !.module = m] : m \in Modules}
    \cup {[Compliant EXCEPT !.readme = rd] : rd \in Readmes}
    \cup Sourceless
    \cup {BarelyCompliant}

(***************************************************************************)
(* The state.                                                              *)
(***************************************************************************)
VARIABLES
    cands,      \* the repository directories under repos_directory, in iterdir() order
    parallel,   \* self.parallel
    visualize,  \* self.visualize
    pc,         \* where evaluate_all_repos is
    idx,        \* serial mode: the index of repo_path in repo_dirs
    stage,      \* serial mode: the next stage of evaluate_repo (0: not in a call)
    raised,     \* serial mode: what the current evaluate_repo call raised
    rec,        \* serial mode: the scores and notes of the current call
    sys_path,   \* sys.path of the process that called evaluate_all_repos
    results,    \* self.results
    saved,      \* the rows _save_results wrote
    queue,      \* parallel mode: the submitted tasks no worker has taken
    running,    \* parallel mode: the task each worker runs (0: none)
    wpath,      \* parallel mode: sys.path of each worker process
    futures,    \* parallel mode: the future of each task
    collected,  \* parallel mode: the futures as_completed has yielded
    test_cases, \* self.test_cases in the calling process: the state of each fixture input
    calls,      \* what the evaluate_repo call that runs, or ran last, did with candidate code
    cwd,        \* the working directory of the calling process
    stdout,     \* the object sys.stdout names in the calling process
    runs,       \* the calls of evaluate_all_repos made on the evaluator
    weighted    \* the last call of calculate_weighted_score: its arguments and its result

vars ==
    <<cands, parallel, visualize, pc, idx, stage, raised, rec, sys_path, results, saved,
      queue, running, wpath, futures, collected, test_cases, calls, cwd, stdout, runs,
      weighted>>

repo_dirs == DOMAIN cands

NoCall == [scores |-> <<>>, weights |-> <<>>, result |-> <<0, 1>>]

Pending == [state |-> "pending", raised |-> "none", rec |-> EmptyRecord(0)]

InitRest ==
    /\ visualize \in BOOLEAN
    /\ pc = "start"
    /\ idx = 0
    /\ stage = 0
    /\ raised = "none"
    /\ rec = EmptyRecord(0)
    /\ sys_path = <<SitePath>>
    /\ results = <<>>
    /\ saved = <<>>
    /\ queue = <<>>
    /\ running = [w \in Workers |-> 0]
    /\ wpath = [w \in Workers |-> <<SitePath>>]
    /\ futures = <<>>
    /\ collected = {}
    /\ test_cases = IntactFixtures
    /\ calls = <<>>
    /\ cwd = LaunchDir
    /\ stdout = RealStdout
    /\ runs = 1
    /\ weighted = NoCall

Init ==
    /\ \E n \in 0..NumRepos : cands \in [1..n -> Menu]
    /\ parallel \in BOOLEAN
    /\ InitRest

(***************************************************************************)
(* evaluate_all_repos                                                      *)
(***************************************************************************)
\* repo_dirs is listed; the mode is chosen; parallel mode submits every task.
Start ==
    /\ pc = "start"
    /\ IF parallel /\ Len(cands) > 1
       THEN /\ pc' = "collect"
            /\ queue' = [i \in 1..Len(cands) |-> i]
            /\ futures' = [i \in 1..Len(cands) |-> Pending]
            /\ idx' = idx
       ELSE /\ pc' = "serial"
            /\ idx' = 1
            /\ UNCHANGED <<runs, weighted, cwd, stdout,
                   queue, futures>>
    /\ UNCHANGED <<runs, weighted, cwd, stdout,
                   test_cases, calls, cands, parallel, visualize, stage, raised, rec, sys_path, results, saved,
                   running, wpath, collected>>

\* for repo_path in repo_dirs: ... self.evaluate_repo(repo_path) is called.
SerialBegin ==
    /\ pc = "serial" /\ stage = 0 /\ idx <= Len(cands)
    /\ stage' = 1
    /\ raised' = "none"
    /\ rec' = EmptyRecord(idx)
    /\ calls' = <<>>
    /\ UNCHANGED <<runs, weighted, cwd, stdout,
                   test_cases, cands, parallel, visualize, pc, idx, sys_path, results, saved,
                   queue, running, wpath, futures, collected>>

\* The call of evaluate_repo goes on from st.
StageEnds(st) ==
    /\ raised' = st.raised
    /\ sys_path' = st.sys_path
    /\ rec' = st.rec
    /\ calls' = st.calls
    /\ test_cases' = st.test_cases
    /\ cwd' = st.env.cwd
    /\ stdout' = st.env.stdout
    /\ stage' = IF st.raised = "none" THEN stage + 1 ELSE stage

\* One checker of evaluate_repo runs (the last stage builds the dict).
SerialStage ==
    /\ pc = "serial" /\ stage \in 1..Len(Stages) /\ raised = "none"
    /\ StageEnds(RunStage(Stages[stage], idx, cands[idx],
                          [raised |-> "none", sys_path |-> sys_path, rec |-> rec,
                           calls |-> calls, test_cases |-> test_cases,
                           env |-> [cwd |-> cwd, stdout |-> stdout]],
                          cands))
    /\ UNCHANGED <<runs, weighted,
                   cands, parallel, visualize, pc, idx, results, saved,
                   queue, running, wpath, futures, collected>>

\* self.results.append(result)
SerialAppend ==
    /\ pc = "serial" /\ stage = Len(Stages) + 1
    /\ results' = Append(results, rec)
    /\ idx' = idx + 1
    /\ stage' = 0
    /\ UNCHANGED <<runs, weighted, cwd, stdout,
                   test_cases, calls, cands, parallel, visualize, pc, raised, rec, sys_path, saved,
                   queue, running, wpath, futures, collected>>

\* What except Exception catches.
Catches(exc) == exc = "Exception"

HandlerDropsRecord(res, r, exc) == res

\* A handler that starts the results over with the record of the failure.
HandlerStartsOver(res, r, exc) == <<ErrorRecord(r, exc)>>

\* The body of the except clauses of evaluate_all_repos.
Handler(res, r, exc) == Append(res, ErrorRecord(r, exc))

\* except Exception as exc: the failed evaluation is added to the results.
SerialExcept ==
    /\ pc = "serial" /\ Catches(raised)
    /\ results' = Handler(results, idx, raised)
    /\ idx' = idx + 1
    /\ stage' = 0
    /\ raised' = "none"
    /\ UNCHANGED <<runs, weighted, cwd, stdout,
                   test_cases, calls, cands, parallel, visualize, pc, rec, sys_path, saved,
                   queue, running, wpath, futures, collected>>

\* What evaluate_repo raised is no Exception: it leaves evaluate_all_repos.
SerialEscape ==
    /\ pc = "serial" /\ raised # "none" /\ ~Catches(raised)
    /\ pc' = "escaped"
    /\ UNCHANGED <<runs, weighted, cwd, stdout,
                   test_cases, calls, cands, parallel, visualize, idx, stage, raised, rec, sys_path, results,
                   saved, queue, running, wpath, futures, collected>>

SerialDone ==
    /\ pc = "serial" /\ stage = 0 /\ idx > Len(cands)
    /\ pc' = "save"
    /\ UNCHANGED <<runs, weighted, cwd, stdout,
                   test_cases, calls, cands, parallel, visualize, idx, stage, raised, rec, sys_path, results,
                   saved, queue, running, wpath, futures, collected>>

\* An idle worker process takes the next task of the call queue.
WorkerTake(w) ==
    /\ pc = "collect" /\ running[w] = 0 /\ queue # <<>>
    /\ running' = [running EXCEPT ![w] = Head(queue)]
    /\ queue' = Tail(queue)
    /\ UNCHANGED <<runs, weighted, cwd, stdout,
                   test_cases, calls, cands, parallel, visualize, pc, idx, stage, raised, rec, sys_path, results,
                   saved, wpath, futures, collected>>

\* The task of worker w for repository r ended as st: what it returned or
\* raised is set on the future.
TaskEnds(w, r, st) ==
    /\ futures' = [futures EXCEPT ![r] =
                     [state |-> "finished", raised |-> st.raised, rec |-> st.rec]]
    /\ wpath' = [wpath EXCEPT ![w] = st.sys_path]
    /\ calls' = st.calls

\* A worker process ends its task: _evaluate_repo_wrapper ran in it.
WorkerFinish(w) ==
    /\ pc = "collect" /\ running[w] # 0
    /\ TaskEnds(w, running[w],
                evaluate_repo_wrapper(running[w], cands[running[w]], wpath[w], cands))
    /\ running' = [running EXCEPT ![w] = 0]
    /\ UNCHANGED <<runs, weighted, cwd, stdout,
                   test_cases, cands, parallel, visualize, pc, idx, stage, raised, rec, sys_path, results,
                   saved, queue, collected>>

\* for future in as_completed(future_to_repo): future.result() returns the
\* record, or raises what the task raised.
Collect(r) ==
    /\ pc = "collect" /\ r \in DOMAIN futures /\ r \notin collected
    /\ futures[r].state = "finished"
    /\ collected' = collected \cup {r}
    /\ IF futures[r].raised = "none"
       THEN results' = Append(results, futures[r].rec) /\ pc' = pc
       ELSE IF Catches(futures[r].raised)
       THEN results' = Handler(results, r, futures[r].raised) /\ pc' = pc
       ELSE results' = results /\ pc' = "escaped"
    /\ UNCHANGED <<runs, weighted, cwd, stdout,
                   test_cases, calls, cands, parallel, visualize, idx, stage, raised, rec, sys_path, saved,
                   queue, running, wpath, futures>>

CollectDone ==
    /\ pc = "collect" /\ collected = DOMAIN futures
    /\ pc' = "save"
    /\ UNCHANGED <<runs, weighted, cwd, stdout,
                   test_cases, calls, cands, parallel, visualize, idx, stage, raised, rec, sys_path, results,
                   saved, queue, running, wpath, futures, collected>>

\* self._save_results(): the rows of the CSV are the records of self.results.
Save ==
    /\ pc = "save"
    /\ saved' = results
    /\ pc' = IF visualize THEN "visualize" ELSE "done"
    /\ UNCHANGED <<runs, weighted, cwd, stdout,
                   test_cases, calls, cands, parallel, visualize, idx, stage, raised, rec, sys_path, results,
                   queue, running, wpath, futures, collected>>

\* generate_visualizations(self.results) reads the records.
Visualize ==
    /\ pc = "visualize"
    /\ pc' = "done"
    /\ UNCHANGED <<runs, weighted, cwd, stdout,
                   test_cases, calls, cands, parallel, visualize, idx, stage, raised, rec, sys_path, results,
                   saved, queue, running, wpath, futures, collected>>

\* evaluate_all_repos is called once more on the evaluator, in the same
\* process: its local variables are new, and self.results, self.test_cases
\* and the state of the process are as the call before left them.
Again ==
    /\ pc = "done" /\ runs < MaxRuns
    /\ runs' = runs + 1
    /\ pc' = "start"
    /\ idx' = 0
    /\ queue' = <<>>
    /\ futures' = <<>>
    /\ collected' = {}
    /\ UNCHANGED <<weighted, cwd, stdout, test_cases, calls, cands, parallel, visualize,
                   stage, raised, rec, sys_path, results, saved, running, wpath>>

\* The dicts calculate_weighted_score is called on.
ComponentNameSet == SeqToSet(ComponentNames)

ScoreDicts == UNION {[K -> {0, Scale, 5 * Scale}] : K \in SUBSET ComponentNameSet}

WeightDicts ==
    {weights,
     [k \in ComponentNameSet |-> 2 * weights[k]],
     [k \in ComponentNameSet |-> 0],
     [k \in {"tests", "algorithm"} |-> weights[k]],
     [k \in {"tests", "algorithm"} |-> 5],
     [k \in ComponentNameSet \ {"performance"} |-> weights[k]]}

\* calculate_weighted_score(scores, weights) is called.
CalculateWeightedScore ==
    /\ weighted = NoCall
    /\ \E scores \in ScoreDicts, w \in WeightDicts :
          weighted' = [scores |-> scores, weights |-> w,
                       result |-> calculate_weighted_score(scores, w)]
    /\ UNCHANGED <<runs, cwd, stdout, test_cases, calls, cands, parallel, visualize, pc,
                   idx, stage, raised, rec, sys_path, results, saved, queue, running,
                   wpath, futures, collected>>

Next ==
    \/ Start
    \/ SerialBegin
    \/ SerialStage
    \/ SerialAppend
    \/ SerialExcept
    \/ SerialEscape
    \/ SerialDone
    \/ \E w \in Workers : WorkerTake(w)
    \/ \E w \in Workers : WorkerFinish(w)
    \/ \E r \in Repos : Collect(r)
    \/ CollectDone
    \/ Save
    \/ Visualize

Spec == Init /\ [][Next]_vars

(***************************************************************************)
(* One repository, evaluated by a serial run: the repository is any of     *)
(* Candidates.                                                             *)
(***************************************************************************)
InitRepo ==
    /\ cands \in [1..1 -> Candidates]
    /\ parallel = FALSE
    /\ InitRest

NextRepo ==
    \/ Start
    \/ SerialBegin
    \/ SerialStage
    \/ SerialAppend
    \/ SerialExcept
    \/ SerialEscape
    \/ SerialDone
    \/ Save
    \/ Visualize

RepoSpec == InitRepo /\ [][NextRepo]_vars

(***************************************************************************)
(* One repository, evaluated by two serial runs of the same evaluator one  *)
(* after the other.                                                        *)
(***************************************************************************)
Reruns ==
    {c \in Candidates :
        /\ Len(c.module.attrs) = 1
        /\ c.tests = GoodTests /\ c.readme = GoodReadme
        /\ c.source \in {[GoodSource EXCEPT !.constructs = k] : k \in ConstructSets}}

InitRerun ==
    /\ cands \in [1..1 -> Reruns]
    /\ parallel = FALSE
    /\ InitRest

NextRerun ==
    \/ Start
    \/ SerialBegin
    \/ SerialStage
    \/ SerialAppend
    \/ SerialExcept
    \/ SerialEscape
    \/ SerialDone
    \/ Save
    \/ Visualize
    \/ Again

RerunSpec == InitRerun /\ [][NextRerun]_vars

(***************************************************************************)
(* One call of calculate_weighted_score, on dicts of scores and of weights *)
(* with keys for some of the components.                                   *)
(***************************************************************************)
InitWeighted ==
    /\ cands = <<>>
    /\ parallel = FALSE
    /\ InitRest
    /\ ~visualize

NextWeighted == CalculateWeightedScore

WeightedSpec == InitWeighted /\ [][NextWeighted]_vars


(***************************************************************************)
(* Properties.                                                             *)
(***************************************************************************)
Indices(s) == 1..Len(s)
IsResult(r) == r.keys = ResultKeys
CountedCases == CaseNameSet \ {"large_case"}
ComparedCases == CaseNameSet \ {"large_case", "edge_case_empty"}

\* The module of credit_rating.py was executed and the cases were run.
Loaded(r) ==
    IsResult(r) /\ \A j \in Indices(r.algorithm_notes) : r.algorithm_notes[j].case \in CaseNameSet

\* C1: a failure raised while one repository is evaluated never leaves
\* evaluate_all_repos, in serial or in parallel mode.
C1_NoFailureEscapes == pc # "escaped"

OneRecordEach(rows) ==
    /\ Len(rows) = Len(cands)
    /\ \A r \in repo_dirs : Cardinality({i \in Indices(rows) : rows[i].repo_name = r}) = 1

\* C2: when the results are persisted and handed to the visualization,
\* self.results holds exactly one record for every repository directory, none
\* missing and none twice, whether the evaluations succeeded or failed, in
\* either mode.
C2_OneRecordPerRepository ==
    /\ pc = "save" => OneRecordEach(results)
    /\ pc \in {"visualize", "done"} => saved = results /\ OneRecordEach(saved)

C2_Witness ==
    /\ pc = "done" /\ parallel /\ Len(cands) > 1
    /\ \E i, j \in Indices(saved) : saved[i].error # "" /\ IsResult(saved[j])

\* The records a serial run of the same batch appends, from the i-th
\* repository on, in a process whose sys.path is path.
RECURSIVE SerialRecords(_, _)
SerialRecords(i, path) ==
    IF i > Len(cands) THEN <<>>
    ELSE LET st == evaluate_repo_wrapper(i, cands[i], path, cands)
         IN  IF st.raised # "none" THEN <<>>
             ELSE <<st.rec>> \o SerialRecords(i + 1, st.sys_path)

\* C3: for the same repositories a parallel run ends with the same set of
\* records as a serial run, whichever worker takes which task.
C3_SameRecordsInBothModes ==
    (pc = "done" /\ parallel /\ Len(cands) > 1)
        => SeqToSet(results) = SeqToSet(SerialRecords(1, <<SitePath>>))

\* C4: evaluate_algorithm and evaluate_performance leave sys.path as it was
\* before the call, however they end.
C4_SearchPathRestored ==
    [][(pc = "serial" /\ stage \in Indices(Stages)
            /\ Stages[stage] \in {"algorithm", "performance"})
        => sys_path' = sys_path]_vars

\* The record of repository r in a batch of its own.
Alone(r) == evaluate_repo_wrapper(r, cands[r], <<SitePath>>, cands)

\* C5: the record of a repository depends on that repository only: it is the
\* record the repository gets in a batch of its own, whatever was evaluated
\* before it in the same process.
C5_RecordDependsOnRepositoryOnly ==
    \A i \in Indices(results) :
        LET st == Alone(results[i].repo_name)
        IN  st.raised = "none" /\ st.rec = results[i]

\* C6: overall_score is the sum of the six component scores times their
\* weights 0.1, 0.2, 0.2, 0.3, 0.1, 0.1, which sum to 1.0 and are those of
\* EVALUATION_PARAMS["weights"].
C6_OverallIsWeightedSum ==
    LET W == EVALUATION_PARAMS.weights
    IN  /\ W.structure + W.tests + W.code_quality + W.algorithm + W.performance
             + W.documentation = WeightScale
        /\ <<W.structure, W.tests, W.code_quality, W.algorithm, W.performance,
             W.documentation>> = <<1, 2, 2, 3, 1, 1>>
        /\ \A i \in Indices(results) :
              IsResult(results[i]) =>
                 results[i].overall_score =
                      results[i].structure_score * W.structure
                    + results[i].test_score * W.tests
                    + results[i].code_quality_score * W.code_quality
                    + results[i].algorithm_score * W.algorithm
                    + results[i].performance_score * W.performance
                    + results[i].documentation_score * W.documentation

C6_Witness ==
    \E i \in Indices(results) :
        /\ IsResult(results[i])
        /\ results[i].overall_score > 0
        /\ results[i].algorithm_score # results[i].code_quality_score
        /\ results[i].algorithm_score # results[i].structure_score

InRange(score) == 0 <= score /\ score <= 5 * Scale

\* C7: in every record each of the six component scores and overall_score
\* lie in [0, 5].
C7_ScoresInRange ==
    \A i \in Indices(results) :
        /\ InRange(results[i].structure_score)
        /\ InRange(results[i].test_score)
        /\ InRange(results[i].code_quality_score)
        /\ InRange(results[i].algorithm_score)
        /\ InRange(results[i].performance_score)
        /\ InRange(results[i].documentation_score)
        /\ 0 <= results[i].overall_score
        /\ results[i].overall_score <= 5 * Scale * WeightScale

\* What the callable a note names does on the note's case.
Outcome(r, n) ==
    IF n.using = "-" THEN Raise("Exception")
    ELSE Call(GetAttr(cands[r.repo_name].module, n.using), n.case)

\* C8: a case other than large_case and edge_case_empty counts as passed
\* exactly when the value the entry point returned equals expected_output.
C8_PassIffEqual ==
    \A i \in Indices(results) :
        Loaded(results[i]) =>
            \A j \in Indices(results[i].algorithm_notes) :
                LET n == results[i].algorithm_notes[j]
                    o == Outcome(results[i], n)
                IN  n.case \in ComparedCases =>
                        (Passed(n.kind) <=>
                            (o.kind = "return"
                                /\ o.value = RMBS_TEST_CASES[n.case].expected_output))

C8_Witness ==
    \E i \in Indices(results) :
        /\ Loaded(results[i])
        /\ \E j, k \in Indices(results[i].algorithm_notes) :
              LET n == results[i].algorithm_notes[j]
                  q == results[i].algorithm_notes[k]
              IN  /\ n.case \in ComparedCases /\ n.kind = "Correct"
                  /\ q.case \in ComparedCases /\ q.kind = "Incorrect"

\* A call of the module's entry point on the case returns.
EntryPointReturns(m, case) ==
    IF HasAttr(m, "calculate_credit_rating")
    THEN Call(GetAttr(m, "calculate_credit_rating"), case).kind = "return"
    ELSE \E a \in Indices(m.attrs) :
            /\ m.attrs[a].callable /\ ~m.attrs[a].private
            /\ m.attrs[a].out[case].kind = "return"

\* C9: edge_case_empty counts as passed exactly when the call of the entry
\* point on its input returns, whatever the value; it counts as failed when
\* the call raises.
C9_EdgeCasePassesIffNoRaise ==
    \A i \in Indices(results) :
        Loaded(results[i]) =>
            /\ \E j \in Indices(results[i].algorithm_notes) :
                  results[i].algorithm_notes[j].case = "edge_case_empty"
            /\ \A j \in Indices(results[i].algorithm_notes) :
                  LET n == results[i].algorithm_notes[j]
                  IN  n.case = "edge_case_empty" =>
                          (Passed(n.kind) <=>
                              EntryPointReturns(cands[results[i].repo_name].module, n.case))

C9_Witness ==
    \E i \in Indices(results) :
        /\ Loaded(results[i])
        /\ \E j \in Indices(results[i].algorithm_notes) :
              LET n == results[i].algorithm_notes[j]
              IN  /\ n.case = "edge_case_empty" /\ Passed(n.kind)
                  /\ n.result # RMBS_TEST_CASES[n.case].expected_output

PassedCount(notes) == Cardinality({j \in Indices(notes) : Passed(notes[j].kind)})

MatchesEveryFixture(m) ==
    /\ HasAttr(m, "calculate_credit_rating")
    /\ \A k \in CountedCases :
          Call(GetAttr(m, "calculate_credit_rating"), k)
              = Ret(RMBS_TEST_CASES[k].expected_output)

\* C10: when the module loads, the score is 5 * passed / total, where total
\* counts the cases other than large_case, which is neither called nor
\* counted; a case passes at most once, so passed <= total; a module whose
\* calculate_credit_rating matches every case scores 5.0.
C10_ScoreIsPassedOverTotal ==
    \A i \in Indices(results) :
        Loaded(results[i]) =>
            LET notes == results[i].algorithm_notes
                total == Cardinality(CountedCases)
            IN  /\ results[i].algorithm_score * total = 5 * Scale * PassedCount(notes)
                /\ Len(notes) = total
                /\ \A j, k \in Indices(notes) : notes[j].case = notes[k].case => j = k
                /\ \A j \in Indices(notes) : notes[j].case \in CountedCases
                /\ PassedCount(notes) <= total
                /\ MatchesEveryFixture(cands[results[i].repo_name].module)
                      => results[i].algorithm_score = 5 * Scale

C10_Witness ==
    \E i \in Indices(results) :
        /\ Loaded(results[i])
        /\ 0 < results[i].algorithm_score
        /\ results[i].algorithm_score < 5 * Scale

\* The checker of that name has run in the evaluate_repo call of the serial
\* loop (it returned, or it raised and the call is about to end).
HasRun(name) ==
    /\ pc = "serial" /\ stage \in Indices(Stages)
    /\ \E k \in Indices(Stages) :
          /\ Stages[k] = name
          /\ k < stage \/ (k = stage /\ raised # "none")

RaisedIn(name) ==
    pc = "serial" /\ stage \in Indices(Stages) /\ Stages[stage] = name /\ raised # "none"

\* credit_rating.py of the repository loads in a process whose sys.path is clean.
LoadsCleanly(r) == ExecModule(r, cands[r], <<Dir(r), SitePath>>, cands).raised = "none"

\* The evaluation of the case ends in an error: no call of an entry point of
\* the module on its input returns.
RaisesOnCase(m, case) == ~EntryPointReturns(m, case)

\* The case passes when it is the only one evaluated.
PassesAlone(m, case) ==
    LET res == FixtureResult(m, case, IntactFixtures)
    IN  res.end = "ok" /\ Passed(res.note.kind)

\* C11: in evaluate_algorithm an error raised while one case is evaluated is
\* the failure of that case only: the checker does not raise, every case
\* other than large_case has its note, a case passes exactly when it passes on
\* its own, and the score is 5/total less for each case that failed.
C11_FixtureErrorIsolated ==
    (HasRun("algorithm") /\ LoadsCleanly(idx))
        => LET m == cands[idx].module
               total == Cardinality(CountedCases)
           IN  /\ ~RaisedIn("algorithm")
               /\ \A k \in CountedCases :
                     /\ \E j \in Indices(rec.algorithm_notes) :
                           rec.algorithm_notes[j].case = k
                     /\ \A j \in Indices(rec.algorithm_notes) :
                           rec.algorithm_notes[j].case = k
                               => /\ Passed(rec.algorithm_notes[j].kind) <=> PassesAlone(m, k)
                                  /\ RaisesOnCase(m, k) => ~Passed(rec.algorithm_notes[j].kind)
               /\ rec.algorithm_score * total
                     = 5 * Scale * Cardinality({k \in CountedCases : PassesAlone(m, k)})

\* The repository has the four required files, and its calculate_credit_rating
\* gives the expected rating on every case and returns on the large one.
FullyCompliant(c) ==
    /\ c.listable /\ c.files = ExpectedFileSet
    /\ ExecModule(1, c, <<Dir(1), SitePath>>, <<c>>).raised = "none"
    /\ MatchesEveryFixture(c.module)
    /\ Call(GetAttr(c.module, "calculate_credit_rating"), "large_case").kind = "return"

\* The overall scores of the fully compliant repositories.
CompliantOveralls ==
    {evaluate_repo(1, c, <<SitePath>>, <<c>>).rec.overall_score :
        c \in {c \in Candidates : FullyCompliant(c)}}

LacksSourceOnly(c) ==
    c.listable /\ c.files = ExpectedFileSet \ {"credit_rating.py"}

\* C12: a repository that lacks credit_rating.py and has the other three
\* required files gets a record, no checker raising: its structure score is
\* that of 3 files of 4 (with the bonus, if it has a directory), its algorithm
\* and performance scores are 0, each with the note of the error, and its
\* overall_score is below that of every fully compliant repository.
C12_MissingSourceFile ==
    /\ (HasRun("documentation") /\ LacksSourceOnly(cands[idx])) => raised = "none"
    /\ \A i \in Indices(results) :
          LacksSourceOnly(cands[results[i].repo_name]) =>
              /\ IsResult(results[i])
              /\ results[i].structure_score =
                    (3 * 5 * Scale) \div 4
                    + (IF cands[results[i].repo_name].extra_dir THEN (3 * Scale) \div 10 ELSE 0)
              /\ results[i].algorithm_score = 0
              /\ results[i].algorithm_notes = SimpleNote("Error checking algorithm")
              /\ results[i].performance_score = 0
              /\ results[i].performance_notes = SimpleNote("Error testing performance")
              /\ \A o \in CompliantOveralls : results[i].overall_score < o

C12_Witness ==
    \E i \in Indices(results) :
        /\ LacksSourceOnly(cands[results[i].repo_name])
        /\ cands[results[i].repo_name].readme = BestReadme
        /\ results[i].test_score > 0
        /\ \E o \in CompliantOveralls : results[i].overall_score + Scale * WeightScale > o

\* The module defines calculate_credit_rating.
ExposesCanonical(m) ==
    \E a \in Indices(m.attrs) : m.attrs[a].name = "calculate_credit_rating"

\* The calls of candidate code in the log.
CallsMade == {k \in Indices(calls) : calls[k].ev = "call"}

\* C13: when the loaded module has calculate_credit_rating, every call the
\* algorithm checker and the performance checker make of candidate code is a
\* call of calculate_credit_rating on the input of a case, whatever that
\* function returns or raises.
C13_OnlyCanonicalInvoked ==
    (pc = "serial" /\ stage # 0 /\ ExposesCanonical(cands[idx].module))
        => \A k \in CallsMade :
              /\ calls[k].name = "calculate_credit_rating"
              /\ calls[k].case \in CaseNameSet

C13_Witness ==
    /\ HasRun("performance")
    /\ LET m == cands[idx].module
       IN  /\ ExposesCanonical(m)
           /\ \E a \in Indices(m.attrs) :
                 /\ m.attrs[a].name # "calculate_credit_rating"
                 /\ m.attrs[a].callable /\ ~m.attrs[a].private
                 /\ m.attrs[a].out = Exact
           /\ Call(GetAttr(m, "calculate_credit_rating"), "edge_case_empty").kind = "raise"
           /\ Call(GetAttr(m, "calculate_credit_rating"), "basic_case") # Ret("BBB")
    /\ \E k \in CallsMade : calls[k].case = "large_case"
    /\ \E k \in CallsMade : calls[k].case = "edge_case_empty"

\* The place of a name in the order credit_rating.py defines its names.
DeclIndex(m, name) == CHOOSE i \in Indices(m.declared) : m.declared[i] = name

\* The public callables of the module that return on the input of the case.
ReturningOn(m, case) ==
    {a \in Indices(m.attrs) :
        /\ m.attrs[a].callable /\ ~m.attrs[a].private
        /\ m.attrs[a].out[case].kind = "return"}

\* The first of them in declaration order ("-" when there is none).
FirstDeclaredReturning(m, case) ==
    IF ReturningOn(m, case) = {} THEN "-"
    ELSE LET a == CHOOSE a \in ReturningOn(m, case) :
                    \A b \in ReturningOn(m, case) :
                        DeclIndex(m, m.attrs[a].name) <= DeclIndex(m, m.attrs[b].name)
         IN  m.attrs[a].name

\* C14: when the module has no calculate_credit_rating, the two checkers call
\* its public callables on a case in the order the file declares them, and the
\* result used for the case is that of the first callable in declaration
\* order that returns on its input.
C14_FallbackInDeclarationOrder ==
    (pc = "serial" /\ stage # 0 /\ ~ExposesCanonical(cands[idx].module))
        => LET m == cands[idx].module
           IN  /\ \A k, l \in CallsMade :
                     (k < l /\ calls[k].case = calls[l].case
                            /\ calls[k].name # calls[l].name)
                         => DeclIndex(m, calls[k].name) < DeclIndex(m, calls[l].name)
               /\ \A j \in Indices(rec.algorithm_notes) :
                     rec.algorithm_notes[j].case \in CaseNameSet
                         => rec.algorithm_notes[j].using
                                = FirstDeclaredReturning(m, rec.algorithm_notes[j].case)

\* Every public callable of the module raises on the input of the case.
AllRaise(m, case) == ReturningOn(m, case) = {}

\* C15: when the module has no calculate_credit_rating and every public
\* callable raises on the input of a case, neither checker raises: the
\* algorithm checker notes for that case that it could not find a function and
\* does not count it as passed (so the score is 0 when this is so for every
\* case), and the performance checker returns 0.
C15_NoEntryPointScoresZero ==
    (pc = "serial" /\ stage # 0 /\ LoadsCleanly(idx)
            /\ ~ExposesCanonical(cands[idx].module))
        => LET m == cands[idx].module
           IN  /\ (HasRun("algorithm") /\ \E k \in CountedCases : AllRaise(m, k))
                     => /\ ~RaisedIn("algorithm")
                        /\ \A k \in CountedCases :
                              AllRaise(m, k)
                                  => \E j \in Indices(rec.algorithm_notes) :
                                        /\ rec.algorithm_notes[j].case = k
                                        /\ rec.algorithm_notes[j].kind = "NoFunction"
                                        /\ ~Passed(rec.algorithm_notes[j].kind)
                        /\ (\A k \in CountedCases : AllRaise(m, k))
                              => rec.algorithm_score = 0
               /\ (HasRun("performance") /\ AllRaise(m, "large_case"))
                     => /\ ~RaisedIn("performance")
                        /\ rec.performance_score = 0
                        /\ rec.performance_notes = SimpleNote("Could not measure performance")

\* The score the claim gives for an elapsed time of t milliseconds, in 1/Scale
\* points: 3.0 - (t - 2.0)/2 is 3 * Scale - 5 * (t - 2000), at least 1.0.
ClaimedScore(t) ==
    CASE t < 100 -> 5 * Scale
      [] 100 <= t /\ t < 500 -> 4 * Scale
      [] 500 <= t /\ t < 2000 -> 3 * Scale
      [] t >= 2000 ->
            IF 3 * Scale - 5 * (t - 2000) >= Scale
            THEN 3 * Scale - 5 * (t - 2000) ELSE Scale

\* C16: when the timed call completes, the performance score is 5.0 for an
\* elapsed time t < 0.1 s, 4.0 for 0.1 <= t < 0.5, 3.0 for 0.5 <= t < 2.0 and
\* max(1.0, 3.0 - (t - 2.0)/2) for t >= 2.0; the score never rises with t and
\* is never below 1.0.
C16_PerformanceBuckets ==
    (HasRun("performance") /\ ~RaisedIn("performance") /\ HasExecutionTime(calls))
        => LET t == ExecutionTime(calls)
           IN  /\ rec.performance_score = ClaimedScore(t)
               /\ rec.performance_score >= Scale
               /\ \A u \in ElapsedTimes :
                     /\ u <= t => PerformanceScore(u) >= rec.performance_score
                     /\ u >= t => PerformanceScore(u) <= rec.performance_score

C16_Witness ==
    /\ HasRun("performance") /\ ~RaisedIn("performance") /\ HasExecutionTime(calls)
    /\ ExecutionTime(calls) > 6000
    /\ rec.performance_score = Scale

\* C17: evaluate_performance calls candidate code on the input of large_case
\* only, and when it reports a time, the callable it reports on was called
\* exactly twice: a warm-up call before the clock is read, then one call
\* between the two readings of the clock, and the time reported is the time of
\* that second call alone.
C17_WarmUpThenTimed ==
    [][(pc = "serial" /\ stage \in Indices(Stages) /\ Stages[stage] = "performance"
            /\ raised = "none")
        => LET made == SubSeq(calls', Len(calls) + 1, Len(calls'))
               n == Len(made)
           IN  /\ \A k \in Indices(made) : made[k].ev = "call" => made[k].case = "large_case"
               /\ (raised' = "none" /\ rec'.performance_notes = SimpleNote("Execution time"))
                     => /\ n >= 4
                        /\ made[n - 3].ev = "call"
                        /\ made[n - 2] = TimerStart
                        /\ made[n - 1].ev = "call"
                        /\ made[n] = TimerStop
                        /\ made[n - 3].name = made[n - 1].name
                        /\ Cardinality({k \in Indices(made) :
                                          /\ made[k].ev = "call"
                                          /\ made[k].name = made[n - 1].name}) = 2
                        /\ Cardinality({k \in Indices(made) : made[k].ev = "time"}) = 2
                        /\ made[n - 1].ms = cands[idx].module.elapsed
                        /\ rec'.performance_score = ClaimedScore(made[n - 1].ms)]_vars

C17_Witness ==
    /\ HasRun("performance") /\ ~RaisedIn("performance") /\ HasExecutionTime(calls)
    /\ cands[idx].module.first_call_cost > 0
    /\ ClaimedScore(cands[idx].module.elapsed)
          # ClaimedScore(2 * cands[idx].module.elapsed + cands[idx].module.first_call_cost)
    /\ rec.performance_score = ClaimedScore(cands[idx].module.elapsed)

\* The score and the notes of a component in a record.
ScoreOf(r, comp) == (Scores(r))[comp]
NotesOf(r, comp) ==
    [structure |-> r.structure_notes, tests |-> r.test_notes,
     code_quality |-> r.code_quality_notes, algorithm |-> r.algorithm_notes,
     performance |-> r.performance_notes, documentation |-> r.documentation_notes][comp]

\* The checker of the component fails on the repository: it cannot do its
\* work, for a reason other than a missing file.
CheckerFails(r, c, comp) ==
    CASE comp = "structure" -> ~c.listable
      [] comp = "tests" -> "test_credit_rating.py" \in c.files /\ c.tests.raises # "none"
      [] comp = "code_quality" -> "credit_rating.py" \in c.files /\ ~c.source.readable
      [] comp = "documentation" -> "README.md" \in c.files /\ ~c.readme.readable
      [] comp = "algorithm" ->
            \/ ExecModule(r, c, <<Dir(r), SitePath>>, <<c>>).raised # "none"
            \/ \E k \in CountedCases :
                  FixtureResult(c.module, k, IntactFixtures).end # "ok"
      [] comp = "performance" ->
            \/ ExecModule(r, c, <<Dir(r), SitePath>>, <<c>>).raised # "none"
            \/ /\ ExposesCanonical(c.module)
               /\ Call(GetAttr(c.module, "calculate_credit_rating"), "large_case").kind
                     = "raise"
            \/ /\ ~ExposesCanonical(c.module)
               /\ TimeAttrs(c.module, 1, <<>>, IntactFixtures).end # "ok"

\* What the checker of the component returns for the repository in a process
\* with a clean sys.path.
CheckerAlone(r, c, comp) ==
    ApplyChecker(comp, r, c, <<SitePath>>, <<c>>, IntactFixtures,
                 [cwd |-> LaunchDir, stdout |-> RealStdout])

\* C18: a failure inside one of the six checkers costs that checker's score
\* only: no checker raises out of evaluate_repo, the record has the score and
\* the notes of all six, the score of a checker that failed is 0, and the
\* score and notes of every other checker are what it returns by itself.
C18_CheckerFailureIsolated ==
    /\ (pc = "serial" /\ stage # 0) => raised = "none"
    /\ \A i \in Indices(results) :
          LET r == results[i].repo_name
              c == cands[r]
          IN  /\ IsResult(results[i])
              /\ \A k \in Indices(ComponentNames) :
                    LET comp == ComponentNames[k]
                    IN  /\ NotesOf(results[i], comp) # <<>>
                        /\ CheckerFails(1, c, comp) => ScoreOf(results[i], comp) = 0
                        /\ ~CheckerFails(1, c, comp)
                              => /\ ScoreOf(results[i], comp) = CheckerAlone(1, c, comp).score
                                 /\ NotesOf(results[i], comp) = CheckerAlone(1, c, comp).notes

\* The fields every persisted record is to have.
MinimumFields ==
    {"repo_name", "overall_score", "test_coverage"}
    \cup {ScoreKeys[ComponentNames[k]] : k \in Indices(ComponentNames)}
    \cup {"structure_notes", "test_notes", "code_quality_notes", "algorithm_notes",
          "performance_notes", "documentation_notes"}

\* C19: every record in self.results, the records of failed evaluations
\* included, has repo_name, overall_score, the score and the notes of each of
\* the six components, and test_coverage.
C19_RecordsHaveMinimumFields ==
    \A i \in Indices(results) : MinimumFields \subseteq results[i].keys

\* C20: the fixtures of self.test_cases are never changed: after any number
\* of repository evaluations every fixture input is what it was when the
\* evaluator was made, so every checker call sees the same inputs as the first.
C20_FixturesUnchanged ==
    \A k \in CaseNameSet : test_cases[k] = "intact"

\* The code-quality checker has just read credit_rating.py of the repository
\* of the serial loop and scored it.
QualityScored ==
    /\ HasRun("code_quality") /\ Stages[stage] = "algorithm" /\ raised = "none"
    /\ "credit_rating.py" \in cands[idx].files
    /\ cands[idx].source.readable

\* Texts that differ from src in what the complexity score is made of.
ComplexityVariants(src) ==
    {[src EXCEPT !.function_count = f, !.class_count = k,
                 !.avg_function_length = a, !.has_main_function = h] :
        f \in {0, 2, 3}, k \in {0, 1}, a \in {0, 3, 5, 20, 21, 60, 200}, h \in BOOLEAN}

\* C21: the score evaluate_code_quality returns for a readable file is the
\* documentation sub-score plus the validation sub-score and nothing else: it
\* lies in [0, 5], and a text with the same two sub-scores and another
\* complexity sub-score (function-length bucket, organization bonus,
\* entry-point bonus) gets the same score.
C21_QualityIsDocPlusValidation ==
    QualityScored
        => /\ rec.code_quality_score
                 = DocScore(cands[idx].source) + ValidationScore(cands[idx].source)
           /\ 0 <= rec.code_quality_score /\ rec.code_quality_score <= 5 * Scale
           /\ \A other \in ComplexityVariants(cands[idx].source) :
                 (/\ DocScore(other) = DocScore(cands[idx].source)
                  /\ ValidationScore(other) = ValidationScore(cands[idx].source))
                    => evaluate_code_quality([cands[idx] EXCEPT !.source = other],
                                             sys_path).score
                          = rec.code_quality_score

C21_Witness ==
    /\ QualityScored
    /\ rec.code_quality_score > 0
    /\ ComplexityScore(cands[idx].source) = (5 * Scale) \div 2
    /\ \E other \in ComplexityVariants(cands[idx].source) :
          /\ DocScore(other) = DocScore(cands[idx].source)
          /\ ComplexityScore(other) < Scale

\* The defensive-coding idioms, and the constructs that are an instance of each.
Idioms ==
    [null_check |-> {"if not x", "if x is None"},
     type_check |-> {"if not isinstance("},
     length_check |-> {"if len(x)"},
     explicit_raise |-> {"raise E", "raise"},
     try_block |-> {"try:", "except E:", "except:"},
     assertion |-> {"assert x"}]

IdiomsPresent(src) == {i \in DOMAIN Idioms : Idioms[i] \cap src.constructs # {}}

\* C22: the validation sub-score is 0.5 times the number of distinct
\* defensive-coding idioms present in the source (null/empty check, type
\* check, length check, explicit raise, try-protected block, assertion),
\* capped at 2.5; a source with exactly one idiom gets exactly 0.5.
C22_ValidationCountsIdioms ==
    QualityScored
        => rec.code_quality_score - DocScore(cands[idx].source)
              = Min((5 * Scale) \div 2,
                    Cardinality(IdiomsPresent(cands[idx].source)) * (Scale \div 2))

\* The documentation sub-score the claim gives, in 1/Scale points.
ClaimedRatioPart(src) ==
    IF src.function_count + src.class_count > 0
    THEN (src.documented * 3 * Scale) \div (2 * (src.function_count + src.class_count))
    ELSE 0

ClaimedCommentBonus(src) ==
    IF 100 * src.comment_lines >= 5 * src.total_lines
       /\ 100 * src.comment_lines <= 20 * src.total_lines
    THEN Scale
    ELSE IF src.comment_lines >= 1 THEN Scale \div 2 ELSE 0

\* C23: the documentation sub-score is 1.5 times the share of the function
\* and class definitions that are documented, plus a comment bonus of 1.0 when
\* comment lines / total lines is in [0.05, 0.20], else 0.5 when there is a
\* comment line, else 0; it lies in [0, 2.5], and a source whose definitions
\* are all undocumented gets 0 for the ratio part.
C23_DocumentationSubScore ==
    QualityScored
        => LET doc_score == rec.code_quality_score - ValidationScore(cands[idx].source)
           IN  /\ doc_score = ClaimedRatioPart(cands[idx].source)
                                 + ClaimedCommentBonus(cands[idx].source)
               /\ 0 <= doc_score /\ 2 * doc_score <= 5 * Scale
               /\ cands[idx].source.documented = 0
                     => doc_score = ClaimedCommentBonus(cands[idx].source)

\* The structure checker has listed the repository of the serial loop and
\* scored it.
StructureScored == HasRun("structure") /\ ~RaisedIn("structure")

\* The expected files the repository has.
FoundFiles(c) ==
    {f \in {"credit_rating.py", "test_credit_rating.py", "requirements.txt", "README.md"} :
        f \in c.files}

\* C24: the structure score is 5 * found / 4 for the found of the four
\* expected files, plus min(0.5, 0.1 * found) when (and only when) the
\* repository has a subdirectory other than .git, __pycache__ and
\* .pytest_cache, capped at 5.0; it lies in [0, 5], and a repository with none
\* of the four files scores 0 whatever subdirectories it has.
C24_StructureScore ==
    StructureScored
        => LET found == Cardinality(FoundFiles(cands[idx]))
               base == (found * 5 * Scale) \div 4
               bonus == IF 10 * found <= 50 THEN found * (Scale \div 10) ELSE Scale \div 2
           IN  /\ cands[idx].extra_dir
                     => rec.structure_score
                           = (IF base + bonus <= 5 * Scale THEN base + bonus ELSE 5 * Scale)
               /\ ~cands[idx].extra_dir => rec.structure_score = base
               /\ 0 <= rec.structure_score /\ rec.structure_score <= 5 * Scale
               /\ found = 0 => rec.structure_score = 0

C24_Witness ==
    /\ StructureScored
    /\ cands[idx].extra_dir
    /\ FoundFiles(cands[idx]) = {}
    /\ rec.structure_score = 0

\* C25: structure, code quality and algorithm are scored the same when the
\* same unmodified repository is evaluated twice in the same process: the
\* first run leaves behind no state that changes the result of the second.
C25_SameScoreTwice ==
    \A i \in Indices(results) : \A j \in Indices(results) :
        (/\ i < j
         /\ results[i].repo_name = results[j].repo_name
         /\ IsResult(results[i]) /\ IsResult(results[j]))
            => /\ results[j].structure_score = results[i].structure_score
               /\ results[j].code_quality_score = results[i].code_quality_score
               /\ results[j].algorithm_score = results[i].algorithm_score

\* evaluate_all_repos takes the serial branch.
SerialMode == ~(parallel /\ Len(cands) > 1)

\* C26: self.results is append-only while evaluate_all_repos runs: every
\* step leaves it as it is or appends exactly one record, no record is
\* changed, replaced or removed, and in serial mode the records are in the
\* order the repository directories were enumerated.
C26_ResultsAppendOnly ==
    [][/\ \/ results' = results
          \/ /\ Len(results') = Len(results) + 1
             /\ SubSeq(results', 1, Len(results)) = results
       /\ SerialMode => \A i \in Indices(results') : results'[i].repo_name = i]_vars

C26_Witness ==
    /\ SerialMode
    /\ Len(results) = 2
    /\ IsResult(results[1])
    /\ results[2].keys = ErrorKeys
    /\ saved = results

\* The names the fallback path is to call on the input of a case, from the
\* i-th attribute of dir(module) on: every public callable, in the order of
\* dir(module), up to and including the first that returns.
RECURSIVE ClaimedCalls(_, _, _)
ClaimedCalls(m, case, i) ==
    IF i > Len(m.attrs) THEN <<>>
    ELSE IF ~m.attrs[i].callable \/ IsPrivate(m.attrs[i].name)
    THEN ClaimedCalls(m, case, i + 1)
    ELSE IF Call(m.attrs[i], case).kind = "return"
    THEN <<m.attrs[i].name>>
    ELSE <<m.attrs[i].name>> \o ClaimedCalls(m, case, i + 1)

\* The names of a sequence of calls, a callable called several times in a row
\* named once.
RECURSIVE NamesOf(_, _)
NamesOf(log, i) ==
    IF i > Len(log) THEN <<>>
    ELSE IF i > 1 /\ log[i - 1].name = log[i].name THEN NamesOf(log, i + 1)
    ELSE <<log[i].name>> \o NamesOf(log, i + 1)

\* The calls of the log on the input of the case.
CallsOn(case) == SelectSeq(calls, LAMBDA e : e.ev = "call" /\ e.case = case)

\* The checker of that name has run in the evaluate_repo call of the serial
\* loop, on a module it loaded that has no calculate_credit_rating.
FallbackTaken(name) ==
    /\ HasRun(name)
    /\ LoadsCleanly(idx)
    /\ ~ExposesCanonical(cands[idx].module)

\* C27: in the fallback path of evaluate_algorithm and evaluate_performance
\* no attribute whose name starts with an underscore is called; on the input
\* of each case the public callables are called in the order of dir(module),
\* one that raises is skipped and the next is tried, and after one has
\* returned no other is called; each case is resolved by itself.
C27_FallbackCalls ==
    /\ FallbackTaken("algorithm")
          => /\ \A k \in CallsMade : ~IsPrivate(calls[k].name)
             /\ \A case \in CountedCases :
                   (CallsOn(case) # <<>> \/ ~RaisedIn("algorithm"))
                      => NamesOf(CallsOn(case), 1) = ClaimedCalls(cands[idx].module, case, 1)
    /\ FallbackTaken("performance")
          => NamesOf(CallsOn("large_case"), 1)
                = ClaimedCalls(cands[idx].module, "large_case", 1)

\* C28: evaluate_tests leaves the state of the process as it found it on
\* every exit path, also when running the tests or computing the coverage
\* raises: the working directory is the one before the call, and sys.stdout
\* names the real standard output again, not the capture object.
C28_ProcessStateRestored ==
    HasRun("tests") => (cwd = LaunchDir /\ stdout = RealStdout)

\* The components with a weight that scores has a score for, in the order of
\* ComponentNames.
Present(scores, w) ==
    SelectSeq(ComponentNames, LAMBDA k : k \in DOMAIN w /\ k \in DOMAIN scores)

\* A record with the six scores of the dict.
RecordOf(scores) ==
    [EmptyRecord(0) EXCEPT
        !.structure_score = scores["structure"], !.test_score = scores["tests"],
        !.code_quality_score = scores["code_quality"],
        !.algorithm_score = scores["algorithm"],
        !.performance_score = scores["performance"],
        !.documentation_score = scores["documentation"]]

\* calculate_weighted_score was called.
WeightedCalled == weighted # NoCall

\* C29: calculate_weighted_score(scores, weights) is evaluate_repo's inline
\* overall_score when scores has all six components and the weights sum to 1;
\* when weighted components are missing from scores, or the weights do not
\* sum to 1, it is the weighted sum over the present components divided by
\* their total weight; it is 0 when no weighted component is present.  (The
\* result is the fraction n/d of 1/(Scale * WeightScale) points; a weight sum
\* of 1 is WeightScale.)
C29_WeightedScore ==
    WeightedCalled
        => LET scores == weighted.scores
               w == weighted.weights
               n == weighted.result[1]
               d == weighted.result[2]
               sum == SumOver(Present(scores, w), 1, scores, w)
               total_weight == SumOver(Present(scores, w), 1,
                                       [k \in DOMAIN w |-> 1], w)
           IN  /\ d > 0
               /\ (DOMAIN scores = ComponentNameSet /\ w = weights)
                     => n = d * OverallScore(RecordOf(scores))
               /\ (DOMAIN scores = ComponentNameSet /\ DOMAIN w = ComponentNameSet
                   /\ total_weight = WeightScale)
                     => n = d * SumOver(ComponentNames, 1, scores, w)
               /\ total_weight > 0 => n * total_weight = d * sum * WeightScale
               /\ Present(scores, w) = <<>> => n = 0

C29_Witness ==
    /\ WeightedCalled
    /\ DOMAIN weighted.scores # ComponentNameSet
    /\ weighted.weights = weights
    /\ weighted.result[2] \notin {1, WeightScale}
    /\ weighted.result[1] > 0

\* A serial run appends what evaluate_repo returns, repository by repository.
SerialRunAgrees ==
    (pc = "done" /\ ~(parallel /\ Len(cands) > 1))
        => results = SerialRecords(1, <<SitePath>>)

=============================================================================
